---- MODULE Spec2Model ----
(***************************************************************************)
(* Reservation-table normalisation, day chunking and Google Calendar push  *)
(* of rooms_sync_google.py, with the replace-style push of                 *)
(* rooms_push_google.py.                                                   *)
(*                                                                         *)
(* Time is counted in seconds.  An absolute instant is the number of       *)
(* seconds since local midnight of day 0; the wall clock of Europe/Zurich  *)
(* differs from it by one hour after a daylight-saving transition.         *)
(***************************************************************************)
EXTENDS Integers, Sequences, FiniteSets, TLC

VARIABLES
    zone,      \* the daylight-saving rule in force around the run dates
    now,       \* the current instant (pd.Timestamp.now / date.today)
    events,    \* the remote calendar: a set of event records
    nextId,    \* the next event id the calendar service hands out
    last,      \* what the most recent run did (requests issued, outcome)
    runs,      \* how many runs of the scripts there have been
    failures,  \* how many requests the calendar service has refused
    batch,     \* pipeline check: the raw batch handed to the normaliser
    normOut,   \* pipeline check: output of normalize_to_room_times
    chunkOut,  \* pipeline check: output of chunk_to_days_6_22
    pc,        \* pipeline check: position in the pipeline
    arg,       \* function check: the argument a function is applied to
    res,       \* function check: what the function returned
    cals,      \* split mode: the events of the per-bucket calendars, by name
    _cache,    \* ICS service: the cached ICS text and its time stamp, by key
    pending    \* ICS service: the requests that are waiting for the bookings

vars == <<zone, now, events, nextId, last, runs, failures, batch, normOut, chunkOut, pc,
          arg, res, cals, _cache, pending>>

-----------------------------------------------------------------------------
(* Bounds of the model *)

MaxRows == 2        \* rows per raw batch in the calendar specification
MaxRuns == 2        \* runs of the scripts in one behaviour
MaxFailures == 1    \* requests the calendar service refuses in one behaviour

(* Program constants *)

WINDOW_DAYS == 7
DAY_START_HOUR == 6
DAY_END_HOUR == 22
HORIZON_DAYS == 8
LOOKAHEAD_DAYS == 90

SOURCE_TAG == "bfh-rooms-sync"

Hour == 60 * 60
Day == 24 * Hour
EndOfDay == 23 * Hour + 59 * 60 + 59

-----------------------------------------------------------------------------
(* The local zone: wall clock against absolute instants *)

NoDst == [kind |-> "none", day |-> 0]
Zones == {NoDst, [kind |-> "fall", day |-> 4]}

\* the absolute instant of the zone's transition (03:00 CEST falls back to
\* 02:00 CET; 02:00 CET springs forward to 03:00 CEST)
Trans(z) == z.day * Day + (IF z.kind = "fall" THEN 3 * Hour ELSE 2 * Hour)

\* wall clock minus absolute time after the transition
Adj(z) == IF z.kind = "fall" THEN 0 - Hour ELSE IF z.kind = "spring" THEN Hour ELSE 0

\* the wall-clock reading (seconds since wall midnight of day 0) at instant t
Wall(z, t) == IF z.kind # "none" /\ t >= Trans(z) THEN t + Adj(z) ELSE t

\* ts.year/month/day of a zone-aware timestamp
DayOf(z, t) == Wall(z, t) \div Day

\* pd.Timestamp(y, m, d, H, M, S, tzinfo=LOCAL_TZ) and tz_localize(LOCAL_TZ):
\* the instant at which the wall clock of day d reads w
Local(z, d, w) ==
    LET W == d * Day + w
    IN  IF z.kind # "none" /\ W >= z.day * Day + 3 * Hour THEN W - Adj(z) ELSE W

\* ts.isoformat() of a zone-aware timestamp: wall-clock fields and UTC offset
IsoFormat(z, t) ==
    <<DayOf(z, t), Wall(z, t) % Day, Wall(z, t) - t>>

Max2(a, b) == IF a >= b THEN a ELSE b
Min2(a, b) == IF a <= b THEN a ELSE b

\* compute_window_days_7, with date.today() the local date of instant t
compute_window_days_7(z, t) ==
    LET today == Local(z, DayOf(z, t), 0)
        plus7 == today + WINDOW_DAYS * Day
    IN  [start |-> today, end |-> Local(z, DayOf(z, plus7), EndOfDay)]

-----------------------------------------------------------------------------
(* Labels are strings, kept as sequences of characters so that they can be *)
(* joined and ordered the way Python joins and orders str values.          *)

UpperLetters == <<"A", "B", "C", "D", "E", "F", "G", "H", "I", "J", "K", "L", "M", "N", "O", "P", "Q", "R", "S", "T", "U", "V", "W", "X", "Y", "Z">>
LowerLetters == <<"a", "b", "c", "d", "e", "f", "g", "h", "i", "j", "k", "l", "m", "n", "o", "p", "q", "r", "s", "t", "u", "v", "w", "x", "y", "z">>

\* the characters of the labels, in ascending order of code point
CodeOrder ==
    <<" ", "-", "/", "0", "1", "2", "3", "4", "5", "6", "7", "8", "9">>
    \o UpperLetters \o <<"_">> \o LowerLetters \o <<"|">>

\* the rank of a character's code point among the characters used
CharCode(c) ==
    IF \E i \in DOMAIN CodeOrder : CodeOrder[i] = c
    THEN CHOOSE i \in DOMAIN CodeOrder : CodeOrder[i] = c
    ELSE 0

\* ch.isdigit(), ch.isalpha() and ch.isspace() of one character
IsDigit(c) == c \in {"0", "1", "2", "3", "4", "5", "6", "7", "8", "9"}
IsAlpha(c) == \E i \in DOMAIN UpperLetters : c = UpperLetters[i] \/ c = LowerLetters[i]
IsSpace(c) == c = " "

\* str.lower()
LowerChar(c) ==
    IF \E i \in DOMAIN UpperLetters : c = UpperLetters[i]
    THEN LowerLetters[CHOOSE i \in DOMAIN UpperLetters : c = UpperLetters[i]]
    ELSE c
Lower(s) == [i \in DOMAIN s |-> LowerChar(s[i])]

\* key in lc: key is a substring of lc
Contains(key, lc) ==
    \E i \in 1..(Len(lc) - Len(key) + 1) : SubSeq(lc, i, i + Len(key) - 1) = key

RECURSIVE StrLess(_, _)
\* a < b for two str values (lexicographic by code point)
StrLess(a, b) ==
    IF b = <<>> THEN FALSE
    ELSE IF a = <<>> THEN TRUE
    ELSE IF CharCode(Head(a)) # CharCode(Head(b))
         THEN CharCode(Head(a)) < CharCode(Head(b))
         ELSE StrLess(Tail(a), Tail(b))

RECURSIVE LStrip(_)
LStrip(s) == IF s # <<>> /\ IsSpace(Head(s)) THEN LStrip(Tail(s)) ELSE s

RECURSIVE RStrip(_)
RStrip(s) ==
    IF s # <<>> /\ IsSpace(s[Len(s)]) THEN RStrip(SubSeq(s, 1, Len(s) - 1)) ELSE s

\* str.strip()
Strip(s) == RStrip(LStrip(s))

RECURSIVE FirstToken(_)
\* the characters of s up to its first whitespace character
FirstToken(s) ==
    IF s = <<>> \/ IsSpace(Head(s)) THEN <<>> ELSE <<Head(s)>> \o FirstToken(Tail(s))

RECURSIVE Split(_)
\* str.split(): the maximal runs of characters that are not whitespace
Split(s) ==
    LET t == LStrip(s)
    IN  IF t = <<>> THEN <<>>
        ELSE <<FirstToken(t)>> \o Split(SubSeq(t, 1 + Len(FirstToken(t)), Len(t)))

\* any(ch.isdigit() for ch in tok) and tok.isalpha()
HasDigit(tok) == \E i \in DOMAIN tok : IsDigit(tok[i])
AllAlpha(tok) == tok # <<>> /\ \A i \in DOMAIN tok : IsAlpha(tok[i])

\* a room code that is always the first token alone
extract_first_token(raum) ==
    LET tokens == Split(Strip(raum))
    IN  IF tokens = <<>> THEN <<>> ELSE tokens[1]

extract_room_code(raum) ==
    LET s == Strip(raum)
        tokens == Split(s)
    IN  IF s = <<>> THEN <<>>
        ELSE IF tokens = <<>> THEN <<>>
        ELSE IF HasDigit(tokens[1])
             THEN IF /\ Len(tokens) >= 2
                     /\ Len(tokens[1]) <= 2 /\ AllAlpha(tokens[1])
                     /\ HasDigit(tokens[2])
                  THEN tokens[1] \o <<" ">> \o tokens[2]
                  ELSE tokens[1]
        ELSE IF Len(tokens) >= 2 /\ HasDigit(tokens[2])
             THEN tokens[1] \o <<" ">> \o tokens[2]
        ELSE tokens[1]

-----------------------------------------------------------------------------
(* Raw cells and rows.  A time cell is the text of a wall-clock reading    *)
(* (day d, second w of the day) or text that does not parse.               *)

NaT == [ok |-> FALSE, d |-> 0, w |-> 0]
Cell(d, w) == [ok |-> TRUE, d |-> d, w |-> w]

\* try_parse_dt: the naive timestamp of a cell that parses
Naive(c) == c.d * Day + c.w

\* a row filter that lets rows of zero length through
ValidRawOrEmpty(r) == r.von.ok /\ r.bis.ok /\ Naive(r.bis) >= Naive(r.von)

\* the row filter "nur Zeilen mit validen Zeiten"
ValidRaw(r) == r.von.ok /\ r.bis.ok /\ Naive(r.bis) > Naive(r.von)

\* x.tz_localize(LOCAL_TZ) of a naive timestamp
Localize(z, c) == Local(z, c.d, c.w)

\* a tz_localize that resolves every wall-clock reading to some instant
LocalizeNeverRaises(z, c) == FALSE

\* tz_localize with the defaults ambiguous="raise", nonexistent="raise": the
\* readings 02:00-02:59 of the transition day exist twice (autumn) or not at
\* all (spring), and localising one raises
LocalizeRaises(z, c) ==
    z.kind # "none" /\ c.d = z.day /\ c.w >= 2 * Hour /\ c.w < 3 * Hour

\* the sort key (Von, Raum) of sort_values(["Von", "Raum"])
RowLess(a, b) ==
    \/ a.Von < b.Von
    \/ a.Von = b.Von /\ StrLess(a.Raum, b.Raum)

RECURSIVE InsertSorted(_, _)
InsertSorted(r, s) ==
    IF s = <<>> THEN <<r>>
    ELSE IF RowLess(r, Head(s)) THEN <<r>> \o s
    ELSE <<Head(s)>> \o InsertSorted(r, Tail(s))

\* a sort step left out
SortRowsSkipped(s) == s

RECURSIVE SortRows(_)
\* DataFrame.sort_values(["Von", "Raum"]): a stable sort on the two keys
SortRows(s) ==
    IF s = <<>> THEN <<>>
    ELSE InsertSorted(s[Len(s)], SortRows(SubSeq(s, 1, Len(s) - 1)))

\* a window test that keeps only rows lying wholly inside the window
InsideWindowContained(r, win) == r.Von >= win.start /\ r.Bis <= win.end

\* the window test of normalize_to_room_times
InsideWindow(r, win) == r.Von <= win.end /\ r.Bis >= win.start

\* whether normalize_to_room_times raises on the batch: the two .apply calls
\* localise the cells of every row that passed the filter, before the window
\* is looked at
NormalizeRaises(z, raw) ==
    \E i \in DOMAIN raw :
        ValidRaw(raw[i]) /\ (LocalizeRaises(z, raw[i].von) \/ LocalizeRaises(z, raw[i].bis))

\* the Raumcode column added to the rows inside the window
WithRaumcode(r) ==
    [Von |-> r.Von, Bis |-> r.Bis, Raum |-> r.Raum, Standort |-> r.Standort,
     Raumcode |-> extract_room_code(r.Raum)]

\* normalize_to_room_times, from the parsed cells of the resolved columns on,
\* when it returns
normalize_to_room_times(z, t, raw) ==
    LET valid == SelectSeq(raw, ValidRaw)
        out == [i \in 1..Len(valid) |->
                   [Von |-> Localize(z, valid[i].von),
                    Bis |-> Localize(z, valid[i].bis),
                    Raum |-> valid[i].raum,
                    Standort |-> valid[i].site]]
        win == compute_window_days_7(z, t)
        inside == SelectSeq(out, LAMBDA r : InsideWindow(r, win))
    IN  SortRows([i \in 1..Len(inside) |-> WithRaumcode(inside[i])])

-----------------------------------------------------------------------------
(* Column roles of normalize_to_room_times.  A raw table is a sequence of  *)
(* column names and rows of cells; a cell is its text together with what   *)
(* the parsers and patterns of the code make of that text.                 *)

SampleRows == 80           \* df.head(80)
DtThresholdTenths == 6     \* sc >= 0.6
RoomThresholdTenths == 4   \* sc >= 0.4
SiteThresholdTenths == 4   \* sc >= 0.4
PosVon == 1                \* cols[1]
PosBis == 2                \* cols[2]
PosRaum == 6               \* cols[6]
PosRaumShort == 3          \* df.columns[3]
PosSite == 13              \* cols[13]

\* None, and the empty name: both count as "not resolved" in every test
None == <<>>

AliasVon == <<<<"v", "o", "n">>, <<"b", "e", "g", "i", "n", "n">>, <<"s", "t", "a", "r", "t">>>>
AliasBis == <<<<"b", "i", "s">>, <<"e", "n", "d", "e">>, <<"e", "n", "d">>>>
AliasRaum ==
    <<<<"r", "e", "s", "s", "o", "u", "r", "c", "e", " ", "b", "e", "z", "e", "i", "c", "h", "n", "u", "n", "g">>,
     <<"r", "e", "s", "s", "o", "u", "r", "c", "e", "n", " ", "i", "d", "/", "b", "e", "z", "e", "i", "c", "h", "n", "u", "n", "g">>,
     <<"r", "a", "u", "m">>,
     <<"r", "e", "s", "s", "o", "u", "r", "c", "e">>,
     <<"r", "e", "s", "o", "u", "r", "c", "e">>>>
AliasSite == <<<<"s", "t", "a", "n", "d", "o", "r", "t", "b", "e", "z", "e", "i", "c", "h", "n", "u", "n", "g">>, <<"s", "t", "a", "n", "d", "o", "r", "t">>, <<"a", "d", "r", "e", "s", "s", "e">>, <<"s", "t", "r", "a", "s", "s", "e">>>>

\* df.columns = [str(c)...strip().lower() for c in df.columns]
CleanColumns(cols) == [i \in DOMAIN cols |-> Lower(Strip(cols[i]))]

RECURSIVE FirstNamed(_, _)
\* an alias test that takes only a column named exactly like the alias
FirstNamed(key, cols) ==
    IF cols = <<>> THEN None
    ELSE IF key = Head(cols) THEN Head(cols)
    ELSE FirstNamed(key, Tail(cols))

RECURSIVE FirstContaining(_, _)
\* for lc in lower: if key in lc: return lower[lc]
FirstContaining(key, cols) ==
    IF cols = <<>> THEN None
    ELSE IF Contains(key, Head(cols)) THEN Head(cols)
    ELSE FirstContaining(key, Tail(cols))

RECURSIVE find_col(_, _)
\* find_col(keys) over the cleaned column names
find_col(keys, cols) ==
    IF keys = <<>> THEN None
    ELSE LET hit == FirstContaining(Head(keys), cols)
         IN  IF hit # None THEN hit ELSE find_col(Tail(keys), cols)

\* a or b of two column names
Or(a, b) == IF a # None THEN a ELSE b

\* the number of sampled rows whose cell in column i has the property
DtHits(tab, i) ==
    Cardinality({k \in 1..Min2(Len(tab.rows), SampleRows) : tab.rows[k][i].dt})
RoomHits(tab, i) ==
    Cardinality({k \in 1..Min2(Len(tab.rows), SampleRows) : tab.rows[k][i].room})
SiteHits(tab, i) ==
    Cardinality({k \in 1..Min2(Len(tab.rows), SampleRows) : tab.rows[k][i].addr})

\* the k-th entry of [c for c, sc in sorted(scores.items(), key=score,
\* reverse=True) if sc >= tenths/10], or None: sorted() is stable, so columns
\* of equal score stay in column order
Candidate(cols, hits, n, tenths, k) ==
    LET rank(i) == 1 + Cardinality({j \in DOMAIN cols :
                           hits[j] > hits[i] \/ (hits[j] = hits[i] /\ j < i)})
        I == {i \in DOMAIN cols : rank(i) = k /\ n > 0 /\ 10 * hits[i] >= tenths * n}
    IN  IF I = {} THEN None ELSE cols[CHOOSE i \in I : TRUE]

_guess_cols_by_content(cols, tab) ==
    LET n == Min2(Len(tab.rows), SampleRows)
        dt == [i \in DOMAIN cols |-> DtHits(tab, i)]
        room == [i \in DOMAIN cols |-> RoomHits(tab, i)]
        site == [i \in DOMAIN cols |-> SiteHits(tab, i)]
        cand_room == Candidate(cols, room, n, RoomThresholdTenths, 1)
    IN  [von |-> Candidate(cols, dt, n, DtThresholdTenths, 1),
         bis |-> Candidate(cols, dt, n, DtThresholdTenths, 2),
         raum |-> IF cand_room # None THEN cand_room
                  ELSE IF Len(cols) > PosRaum THEN cols[PosRaum + 1]
                  ELSE IF Len(cols) > PosRaumShort THEN cols[PosRaumShort + 1]
                  ELSE None,
         site |-> Candidate(cols, site, n, SiteThresholdTenths, 1)]

\* the alias pass
AliasPass(cols) ==
    [von |-> find_col(AliasVon, cols),
     bis |-> find_col(AliasBis, cols),
     raum |-> find_col(AliasRaum, cols),
     site |-> find_col(AliasSite, cols)]

\* if not (col_von and col_bis and col_raum), after the alias pass
ContentNeeded(a) == ~(a.von # None /\ a.bis # None /\ a.raum # None)

\* the content pass, entered only when the alias pass left a role open
ContentPass(cols, tab, a) ==
    IF ContentNeeded(a)
    THEN LET g == _guess_cols_by_content(cols, tab)
         IN  [von |-> Or(a.von, Lower(g.von)), bis |-> Or(a.bis, Lower(g.bis)),
              raum |-> Or(a.raum, Lower(g.raum)), site |-> Or(a.site, Lower(g.site))]
    ELSE a

\* the positional pass
PositionalPass(cols, c) ==
    [von |-> IF c.von = None /\ Len(cols) > PosVon THEN cols[PosVon + 1] ELSE c.von,
     bis |-> IF c.bis = None /\ Len(cols) > PosBis THEN cols[PosBis + 1] ELSE c.bis,
     raum |-> IF c.raum = None /\ Len(cols) > PosRaum THEN cols[PosRaum + 1] ELSE c.raum,
     site |-> IF c.site = None /\ Len(cols) > PosSite THEN cols[PosSite + 1] ELSE c.site]

\* the position of the column named name, 0 when there is none (KeyError)
ColumnIndex(cols, name) ==
    IF \E i \in DOMAIN cols : cols[i] = name
    THEN CHOOSE i \in DOMAIN cols : cols[i] = name /\ \A j \in 1..(i - 1) : cols[j] # name
    ELSE 0

\* a guard that lets a table without a room column through
UnresolvedTimes(f) == ~(f.von # None /\ f.bis # None)

\* if not (col_von and col_bis and col_raum), after the positional pass
Unresolved(f) == ~(f.von # None /\ f.bis # None /\ f.raum # None)

\* normalize_to_room_times on a raw table: the roles after each pass, whether
\* the content pass was entered, and the rows returned or the exception
NormalizeTable(z, t, tab) ==
    LET cols == CleanColumns(tab.cols)
        a == AliasPass(cols)
        c == ContentPass(cols, tab, a)
        f == PositionalPass(cols, c)
        iv == ColumnIndex(cols, f.von)
        ib == ColumnIndex(cols, f.bis)
        ir == ColumnIndex(cols, f.raum)
        is == ColumnIndex(cols, f.site)
        raw == [k \in DOMAIN tab.rows |->
                   [von |-> tab.rows[k][iv].t, bis |-> tab.rows[k][ib].t,
                    raum |-> tab.rows[k][ir].txt,
                    site |-> IF f.site # None THEN tab.rows[k][is].txt ELSE <<>>]]
        roles == [alias |-> a, content |-> c, final |-> f, guessed |-> ContentNeeded(a)]
    IN  IF Unresolved(f)
        THEN [roles |-> roles, rows |-> <<>>, raised |-> FALSE]
        ELSE IF iv = 0 \/ ib = 0 \/ ir = 0 \/ (f.site # None /\ is = 0)
        THEN [roles |-> roles, rows |-> <<>>, raised |-> TRUE]
        ELSE IF NormalizeRaises(z, raw)
        THEN [roles |-> roles, rows |-> <<>>, raised |-> TRUE]
        ELSE [roles |-> roles, rows |-> normalize_to_room_times(z, t, raw), raised |-> FALSE]

-----------------------------------------------------------------------------
(* chunk_to_days_6_22 *)

\* cur_day + pd.Timedelta(days=1): 24 hours later
NextCurDay(cur) == cur + Day

\* a day slice that is not cut to the 06:00-22:00 band
DaySliceUncut(z, r, st, en, cur) ==
    LET d == DayOf(z, cur)
        s == Max2(st, Local(z, d, 0))
        e == Min2(en, Local(z, d, EndOfDay))
    IN  IF e > s THEN <<[r EXCEPT !.Von = s, !.Bis = e]>> ELSE <<>>

\* the row emitted for the day of cur_day, if any
DaySlice(z, r, st, en, cur) ==
    LET d == DayOf(z, cur)
        d_start == Local(z, d, DAY_START_HOUR * Hour)
        d_end == Local(z, d, DAY_END_HOUR * Hour)
        s == Max2(st, d_start)
        e == Min2(en, d_end)
    IN  IF e > s THEN <<[r EXCEPT !.Von = s, !.Bis = e]>> ELSE <<>>

RECURSIVE DayLoop(_, _, _, _, _, _)
\* while cur_day <= last_day
DayLoop(z, r, st, en, cur, last_day) ==
    IF cur > last_day THEN <<>>
    ELSE DaySlice(z, r, st, en, cur) \o DayLoop(z, r, st, en, NextCurDay(cur), last_day)

\* the rows appended for one input row
ChunkRow(z, r, win) ==
    LET st == Max2(r.Von, win.start)
        en == Min2(r.Bis, win.end)
    IN  IF en <= st THEN <<>>
        ELSE DayLoop(z, r, st, en, Local(z, DayOf(z, st), 0), Local(z, DayOf(z, en), 0))

RECURSIVE ChunkRows(_, _, _)
ChunkRows(z, df, win) ==
    IF df = <<>> THEN <<>>
    ELSE ChunkRow(z, Head(df), win) \o ChunkRows(z, Tail(df), win)

chunk_to_days_6_22(z, t, df) ==
    IF df = <<>> THEN df
    ELSE SortRows(ChunkRows(z, df, compute_window_days_7(z, t)))

-----------------------------------------------------------------------------
(* The remote calendar and the requests of one run *)

NoFp == [head |-> <<>>, von |-> <<>>, bis |-> <<>>, tail |-> <<>>]

\* a fingerprint that also takes in the room code
fingerprintWithCode(z, r) ==
    [head |-> r.Raumcode,
     von |-> IsoFormat(z, r.Von),
     bis |-> IsoFormat(z, r.Bis),
     tail |-> r.Raum \o <<"|">> \o r.Standort]

\* fingerprint (rooms_sync_google): the text "Von|Bis|Raum|Standort" that is
\* hashed.  SHA-1 is taken to be collision free, so the text stands for its
\* digest; the two timestamps hold no "|" and are kept apart from the rest.
fingerprint(z, r) ==
    [head |-> <<>>,
     von |-> IsoFormat(z, r.Von),
     bis |-> IsoFormat(z, r.Bis),
     tail |-> r.Raum \o <<"|">> \o r.Standort]

\* fingerprint (rooms_push_google): the text "Raum|Von|Bis"
fingerprint_push(z, r) ==
    [head |-> r.Raum,
     von |-> IsoFormat(z, r.Von),
     bis |-> IsoFormat(z, r.Bis),
     tail |-> <<>>]

\* events().list with every bound dropped after timeMin
ListedEventsNoMax(evs, t, days) == {e \in evs : e.end > t}

\* events().list(timeMin=now, timeMax=now+days, singleEvents=True), all pages:
\* the events that end after timeMin and start before timeMax
ListedEvents(evs, t, days) ==
    {e \in evs : e.end > t /\ e.start < t + days * Day}

\* a filter that takes every listed event for one of this system's
OwnEventsAll(listed) == listed

\* a filter that never recognises an event of this system
OwnEventsNone(listed) == {e \in listed : e.source = "fp"}

\* to_delete: the listed events whose private property source is SOURCE_TAG
OwnEvents(listed) == {e \in listed : e.source = SOURCE_TAG}

\* an insert body that leaves the private properties out
InsertedEventUntagged(id, r, fp) ==
    [id |-> id, start |-> r.Von, end |-> r.Bis, source |-> "", fp |-> NoFp]

\* the event that events().insert(body) adds for row r
InsertedEvent(id, r, fp) ==
    [id |-> id, start |-> r.Von, end |-> r.Bis, source |-> SOURCE_TAG, fp |-> fp]

\* push_events (rooms_sync_google): the events of the first n rows of df
PushedEvents(z, df, first, n) ==
    {InsertedEvent(first + i - 1, df[i], fingerprint(z, df[i])) : i \in 1..n}

\* push_events (rooms_push_google)
PushedEventsPush(z, df, first, n) ==
    {InsertedEvent(first + i - 1, df[i], fingerprint_push(z, df[i])) : i \in 1..n}

\* What delete_future_own_events followed by push_events can do when own is
\* to_delete and df has n rows.  No request is guarded by try/except, so the
\* first request that fails raises and ends the run.
\* (RunCompletesKeepAll: a run that skips the delete step.)
\*   deleted : events removed          delReq : events a delete was sent for
\*   inserted: rows 1..inserted added  insReq : rows 1..insReq an insert was sent for
\*   raised  : the run ended in an exception, failed : the request that failed
\* The order in which the listed events are deleted is the service's, so a
\* failing delete can follow the deletion of any of the other events.
RunCompletesKeepAll(own, n) ==
    {[deleted |-> {}, delReq |-> {}, inserted |-> n, insReq |-> n, raised |-> FALSE,
      failed |-> "none"]}

RunCompletes(own, n) ==
    {[deleted |-> own, delReq |-> own, inserted |-> n, insReq |-> n, raised |-> FALSE,
      failed |-> "none"]}

ListFails ==
    {[deleted |-> {}, delReq |-> {}, inserted |-> 0, insReq |-> 0, raised |-> TRUE,
      failed |-> "list"]}

DeleteFails(own) ==
    {[deleted |-> q[1], delReq |-> q[1] \cup {q[2]}, inserted |-> 0, insReq |-> 0,
      raised |-> TRUE, failed |-> "delete"] : q \in {x \in (SUBSET own) \X own : x[2] \notin x[1]}}

InsertFails(own, n) ==
    {[deleted |-> own, delReq |-> own, inserted |-> k - 1, insReq |-> k,
      raised |-> TRUE, failed |-> "insert"] : k \in 1..n}

RunOutcomes(own, n) ==
    RunCompletes(own, n) \cup ListFails \cup DeleteFails(own) \cup InsertFails(own, n)

-----------------------------------------------------------------------------
(* rooms_push_google: normalisation without window or location *)

PushLess(a, b) ==
    \/ StrLess(a.Raum, b.Raum)
    \/ a.Raum = b.Raum /\ a.Von < b.Von
    \/ a.Raum = b.Raum /\ a.Von = b.Von /\ a.Bis < b.Bis

RECURSIVE InsertSortedPush(_, _)
InsertSortedPush(r, s) ==
    IF s = <<>> THEN <<r>>
    ELSE IF PushLess(r, Head(s)) THEN <<r>> \o s
    ELSE <<Head(s)>> \o InsertSortedPush(r, Tail(s))

RECURSIVE SortRowsPush(_)
\* sort_values(["Raum", "Von", "Bis"])
SortRowsPush(s) ==
    IF s = <<>> THEN <<>>
    ELSE InsertSortedPush(s[Len(s)], SortRowsPush(SubSeq(s, 1, Len(s) - 1)))

normalize_push(z, raw) ==
    LET valid == SelectSeq(raw, ValidRaw)
    IN  SortRowsPush([i \in 1..Len(valid) |->
                        [Von |-> Localize(z, valid[i].von),
                         Bis |-> Localize(z, valid[i].bis),
                         Raum |-> valid[i].raum,
                         Standort |-> <<>>]])

-----------------------------------------------------------------------------
(* Pipeline specification: normalize_to_room_times and chunk_to_days_6_22  *)
(* applied to raw batches, for run dates around a daylight-saving change.  *)

A1 == <<"A", "1">>
B1 == <<"B", "1">>
SiteA == <<"A">>
NoSite == <<>>

PipeDays == {5, 7, 8, 9, 10, 15, 16}
PipeWalls == {0, 5 * Hour, 6 * Hour, 8 * Hour, 20 * Hour, 22 * Hour, 23 * Hour}
PipeCells ==
    {NaT, Cell(8, 2 * Hour + 30 * 60)} \cup {Cell(d, w) : d \in PipeDays, w \in PipeWalls}

RawRow(v, b, rm, st) == [von |-> v, bis |-> b, raum |-> rm, site |-> st]

\* single-row batches over every pair of cells
PipeSingles == {<<RawRow(v, b, A1, SiteA)>> : v \in PipeCells, b \in PipeCells}

\* two-row batches over a few rows, with equal and different labels
PipePairRows ==
    {RawRow(Cell(7, 20 * Hour), Cell(8, 8 * Hour), rm, NoSite) : rm \in {A1, B1}}
    \cup {RawRow(Cell(8, 8 * Hour), Cell(9, 23 * Hour), B1, SiteA),
          RawRow(Cell(8, 8 * Hour), NaT, A1, SiteA),
          RawRow(Cell(9, 8 * Hour), Cell(8, 8 * Hour), A1, SiteA),
          RawRow(Cell(5, 8 * Hour), Cell(5, 20 * Hour), A1, SiteA),
          RawRow(Cell(8, 2 * Hour + 30 * 60), Cell(8, 8 * Hour), B1, SiteA)}
PipePairs == {<<r1, r2>> : r1 \in PipePairRows, r2 \in PipePairRows}

PipeBatches == {<<>>} \cup PipeSingles \cup PipePairs

\* run instants: a week before the change, the day before it, and on its day
PipeNows == {1 * Day + 10 * Hour, 7 * Day + 10 * Hour, 8 * Day + 10 * Hour}
PipeZones == {NoDst, [kind |-> "fall", day |-> 8], [kind |-> "spring", day |-> 8]}

NoRun == [kind |-> "none"]

PipeInit ==
    /\ zone \in PipeZones
    /\ now \in PipeNows
    /\ batch \in PipeBatches
    /\ normOut = <<>>
    /\ chunkOut = <<>>
    /\ pc = "raw"
    /\ events = {}
    /\ nextId = 1
    /\ last = NoRun
    /\ runs = 0
    /\ failures = 0
    /\ arg = <<>>
    /\ res = <<>>
    /\ cals = <<>>
    /\ _cache = <<>>
    /\ pending = <<>>

\* df = normalize_to_room_times(raw): returns the rows, or raises
Normalize ==
    /\ pc = "raw"
    /\ IF NormalizeRaises(zone, batch)
       THEN normOut' = <<>> /\ pc' = "raised"
       ELSE normOut' = normalize_to_room_times(zone, now, batch) /\ pc' = "normalized"
    /\ UNCHANGED <<zone, now, batch, chunkOut, events, nextId, last, runs, failures,
                   arg, res, cals, _cache, pending>>

Chunk ==
    /\ pc = "normalized"
    /\ chunkOut' = chunk_to_days_6_22(zone, now, normOut)
    /\ pc' = "chunked"
    /\ UNCHANGED <<zone, now, batch, normOut, events, nextId, last, runs, failures,
                   arg, res, cals, _cache, pending>>

PipeNext == Normalize \/ Chunk

SpecPipe == PipeInit /\ [][PipeNext]_vars

-----------------------------------------------------------------------------
(* Properties of the pipeline *)

Range(s) == {s[i] : i \in DOMAIN s}
Count(s, x) == Cardinality({i \in DOMAIN s : s[i] = x})

\* the canonical row a raw row stands for
ParsedRow(z, r) ==
    [Von |-> Localize(z, r.von), Bis |-> Localize(z, r.bis),
     Raum |-> r.raum, Standort |-> r.site, Raumcode |-> extract_room_code(r.raum)]

BothParse(r) == r.von.ok /\ r.bis.ok

C9_EndAfterStart ==
    /\ \A i \in DOMAIN normOut : normOut[i].Bis > normOut[i].Von
    /\ \A i \in DOMAIN chunkOut : chunkOut[i].Bis > chunkOut[i].Von

\* C9 witness: the batch holds a row that does not end after its start, and
\* the chunker has cut another row into more rows than it was given.
C9_Witness ==
    /\ pc = "chunked"
    /\ \E i \in DOMAIN batch : BothParse(batch[i]) /\ ~ValidRaw(batch[i])
    /\ Len(chunkOut) > Len(normOut)
    /\ normOut # <<>>

\* the part of row r inside the window and inside the 06:00-22:00 band of
\* calendar day D
BandStart(z, r, win, D) ==
    Max2(Max2(r.Von, win.start), Local(z, D, DAY_START_HOUR * Hour))
BandEnd(z, r, win, D) ==
    Min2(Min2(r.Bis, win.end), Local(z, D, DAY_END_HOUR * Hour))
BandRow(z, r, win, D) ==
    [r EXCEPT !.Von = BandStart(z, r, win, D), !.Bis = BandEnd(z, r, win, D)]

\* the rows the chunker has to emit for df: one per input row and calendar
\* day whose band meets the clipped row in an interval of positive length
ChunkTargets(z, df, win) ==
    {id \in (DOMAIN df) \X (DayOf(z, win.start) .. DayOf(z, win.end)) :
        BandEnd(z, df[id[1]], win, id[2]) > BandStart(z, df[id[1]], win, id[2])}

\* C10: chunking result. For every input row, chunk_to_days_6_22 emits
\* exactly one row per calendar day D on which the window-clipped interval
\* meets [D 06:00, D 22:00], that row's interval being the intersection, and
\* no other rows.
C10_ChunkPerDay ==
    pc = "chunked" =>
        LET win == compute_window_days_7(zone, now)
            want == ChunkTargets(zone, normOut, win)
            wantRow(id) == BandRow(zone, normOut[id[1]], win, id[2])
        IN  \A x \in Range(chunkOut) \cup {wantRow(id) : id \in want} :
                Count(chunkOut, x) = Cardinality({id \in want : wantRow(id) = x})

\* C11: every row output by chunk_to_days_6_22 starts and ends on one calendar
\* day, not before 06:00 and not after 22:00 of that day, lies inside the sync
\* window, and has the room label, location label and room code of a source
\* row whose interval it is a part of.
C11_ChunkRowsInBand ==
    pc = "chunked" =>
        LET win == compute_window_days_7(zone, now)
        IN  \A i \in DOMAIN chunkOut :
                LET c == chunkOut[i]
                    D == DayOf(zone, c.Von)
                IN  /\ DayOf(zone, c.Bis) = D
                    /\ Wall(zone, c.Von) - D * Day >= DAY_START_HOUR * Hour
                    /\ Wall(zone, c.Bis) - D * Day <= DAY_END_HOUR * Hour
                    /\ c.Von >= win.start /\ c.Bis <= win.end
                    /\ \E j \in DOMAIN normOut :
                           /\ normOut[j].Raum = c.Raum
                           /\ normOut[j].Standort = c.Standort
                           /\ normOut[j].Raumcode = c.Raumcode
                           /\ normOut[j].Von <= c.Von /\ c.Bis <= normOut[j].Bis

\* C11 witness: around a daylight-saving change, a reservation that begins
\* before the window and runs over two nights has been cut into day slices
C11_Witness ==
    /\ pc = "chunked"
    /\ zone.kind # "none"
    /\ \E j \in DOMAIN normOut :
          /\ normOut[j].Von < compute_window_days_7(zone, now).start
          /\ DayOf(zone, normOut[j].Bis) > DayOf(zone, now) + 1
    /\ Len(chunkOut) >= 2
    /\ \E i \in DOMAIN chunkOut : DayOf(zone, chunkOut[i].Von) = zone.day

\* run dates to compare: those of the runs, and the day after the change
OtherRunDates == PipeNows \cup {9 * Day + 10 * Hour}

\* the calendar days of the sync window of a run at t
WindowDays(z, t) ==
    DayOf(z, compute_window_days_7(z, t).start) .. DayOf(z, compute_window_days_7(z, t).end)

\* the rows that a run at t emits for calendar day D
ChunksOfDay(z, t, raw, D) ==
    {c \in Range(chunk_to_days_6_22(z, t, normalize_to_room_times(z, t, raw))) :
        DayOf(z, c.Von) = D}

\* C27: chunk identity is stable across run days. For a calendar day D the
\* rows that chunk_to_days_6_22 emits for D, with their start and end, are
\* the same for every run date whose window contains D.
C27_ChunkStable ==
    pc = "chunked" =>
        \A t \in OtherRunDates :
            \A D \in WindowDays(zone, now) \cap WindowDays(zone, t) :
                {c \in Range(chunkOut) : DayOf(zone, c.Von) = D}
                    = ChunksOfDay(zone, t, batch, D)

\* a raw row that the row filter has to drop: a cell that does not parse, or
\* an end that is not after the start
BadRow(r) == ~BothParse(r) \/ Naive(r.bis) <= Naive(r.von)

\* C16: row-level error absorption. A row whose start or end cell does not
\* parse, or whose parsed end is not after its start, is dropped by
\* normalize_to_room_times without raising, and every other row of the batch
\* that is valid and intersects the window is in the output.
C16_BadRowAbsorbed ==
    pc # "raw" =>
        LET win == compute_window_days_7(zone, now)
        IN  \A i \in DOMAIN batch :
                BadRow(batch[i]) =>
                    /\ pc # "raised"
                    /\ Len(normOut) <= Cardinality({j \in DOMAIN batch : ~BadRow(batch[j])})
                    /\ BothParse(batch[i]) => ParsedRow(zone, batch[i]) \notin Range(normOut)
                    /\ \A j \in DOMAIN batch :
                           (/\ j # i
                            /\ ValidRaw(batch[j])
                            /\ ParsedRow(zone, batch[j]).Von <= win.end
                            /\ ParsedRow(zone, batch[j]).Bis >= win.start)
                               => ParsedRow(zone, batch[j]) \in Range(normOut)

\* C18: the output of normalize_to_room_times and the output of
\* chunk_to_days_6_22 are in ascending order of (start_time, room_label).
C18_OutputSorted ==
    /\ \A i, j \in DOMAIN normOut :
           i < j => \/ normOut[i].Von < normOut[j].Von
                    \/ /\ normOut[i].Von = normOut[j].Von
                       /\ ~StrLess(normOut[j].Raum, normOut[i].Raum)
    /\ \A i, j \in DOMAIN chunkOut :
           i < j => \/ chunkOut[i].Von < chunkOut[j].Von
                    \/ /\ chunkOut[i].Von = chunkOut[j].Von
                       /\ ~StrLess(chunkOut[j].Raum, chunkOut[i].Raum)

\* C18 witness: the batch came in descending order of start and of room
\* label, and chunking has produced slices of both rows
C18_Witness ==
    /\ pc = "chunked"
    /\ Len(batch) = 2 /\ Len(normOut) = 2
    /\ ValidRaw(batch[1]) /\ ValidRaw(batch[2])
    /\ \/ Naive(batch[2].von) < Naive(batch[1].von)
       \/ Naive(batch[2].von) = Naive(batch[1].von) /\ StrLess(batch[2].raum, batch[1].raum)
    /\ Len(chunkOut) > 2
    /\ \E i \in DOMAIN chunkOut : chunkOut[i].Von < chunkOut[1].Von + Day
                                    /\ chunkOut[i].Raum # chunkOut[1].Raum

-----------------------------------------------------------------------------
(* Calendar specification: runs of the two scripts against one calendar    *)
(* that may hold events made by hand, and the clock.                       *)

\* the instants at which runs take place: 10:00 of day 3 and 12:30 of day 4,
\* the second one in the middle of a reservation of day 4 and after the end
\* of the reservation over the night before
ClockPoints == <<3 * Day + 10 * Hour, 4 * Day + 12 * Hour + 30 * 60>>

\* the raw rows a scrape can return, in the order of the result grid: a
\* reservation over midnight, one of an hour, and one far outside the window
RunRows ==
    <<RawRow(Cell(4, 12 * Hour), Cell(4, 13 * Hour), B1, NoSite),
      RawRow(Cell(3, 20 * Hour), Cell(4, 8 * Hour), A1, SiteA),
      RawRow(Cell(20, 12 * Hour), Cell(20, 13 * Hour), B1, NoSite)>>

RECURSIVE Pick(_, _)
\* the rows of s whose position is in I, in the order of s
Pick(s, I) ==
    IF s = <<>> THEN <<>>
    ELSE LET rest == Pick(SubSeq(s, 1, Len(s) - 1), I)
         IN  IF Len(s) \in I THEN Append(rest, s[Len(s)]) ELSE rest

RunBatches ==
    {Pick(RunRows, I) : I \in {J \in SUBSET (DOMAIN RunRows) : Cardinality(J) <= MaxRows}}

\* events that a user made by hand, and that another tool made, in the same
\* calendar: without private properties, and with a foreign source tag
ManualEvents ==
    {[id |-> 0, start |-> Local(NoDst, 4, 12 * Hour), end |-> Local(NoDst, 4, 13 * Hour),
      source |-> "", fp |-> NoFp],
     [id |-> -1, start |-> Local(NoDst, 3, 22 * Hour), end |-> Local(NoDst, 3, 23 * Hour),
      source |-> "other-tool", fp |-> NoFp]}

\* whether the run before, with nothing in between, was a run of the same
\* script on the same batch with the same options, and completed
Repeats(kind, raw, chunk) ==
    /\ last.kind = kind
    /\ last.raw = raw
    /\ last.chunk = chunk
    /\ ~last.raised

RunRecord(kind, raw, chunk, df, reached, out, firstId) ==
    [kind |-> kind, raw |-> raw, chunk |-> chunk, rows |-> df, reached |-> reached,
     at |-> now, again |-> Repeats(kind, raw, chunk),
     pre |-> events, firstId |-> firstId,
     delReq |-> out.delReq, insReq |-> out.insReq, raised |-> out.raised,
     failed |-> out.failed]

NoRequests ==
    [deleted |-> {}, delReq |-> {}, inserted |-> 0, insReq |-> 0, raised |-> FALSE,
     failed |-> "none"]

\* the run ended in normalize_to_room_times, before any request
NormalizeFailed ==
    [deleted |-> {}, delReq |-> {}, inserted |-> 0, insReq |-> 0, raised |-> TRUE,
     failed |-> "normalize"]

Init ==
    /\ zone \in Zones
    /\ now = ClockPoints[1]
    /\ events \in {{}, ManualEvents}
    /\ nextId = 1
    /\ last = NoRun
    /\ runs = 0
    /\ failures = 0
    /\ batch = <<>>
    /\ normOut = <<>>
    /\ chunkOut = <<>>
    /\ pc = "idle"
    /\ arg = <<>>
    /\ res = <<>>
    /\ cals = <<>>
    /\ _cache = <<>>
    /\ pending = <<>>

\* rooms_sync_google.run from the scraped batch on, with split_by = "none":
\* normalize, chunk unless --no-chunk, group_and_push_by_calendar
SyncRun ==
    /\ pc = "idle"
    /\ runs < MaxRuns
    /\ runs' = runs + 1
    /\ \E raw \in RunBatches, chunk \in BOOLEAN :
          LET norm == normalize_to_room_times(zone, now, raw)
              df == IF chunk THEN chunk_to_days_6_22(zone, now, norm) ELSE norm
              own == OwnEvents(ListedEvents(events, now, HORIZON_DAYS))
          IN  IF raw # <<>> /\ NormalizeRaises(zone, raw)
              THEN /\ last' = RunRecord("sync", raw, chunk, <<>>, FALSE, NormalizeFailed, nextId)
                   /\ UNCHANGED <<events, nextId, failures>>
              ELSE IF raw = <<>> \/ norm = <<>> \/ df = <<>>
              THEN \* "Keine Daten", "Keine ... Zeilen im 7-Tage-Fenster",
                   \* "Keine Events zu pushen": return before any request
                   /\ last' = RunRecord("sync", raw, chunk, df, FALSE, NoRequests, nextId)
                   /\ UNCHANGED <<events, nextId, failures>>
              ELSE /\ \E out \in RunOutcomes(own, Len(df)) :
                         /\ out.raised => failures < MaxFailures
                         /\ failures' = failures + (IF out.raised THEN 1 ELSE 0)
                         /\ events' = (events \ out.deleted)
                                        \cup PushedEvents(zone, df, nextId, out.inserted)
                         /\ nextId' = nextId + out.inserted
                         /\ last' = RunRecord("sync", raw, chunk, df, TRUE, out, nextId)
    /\ UNCHANGED <<zone, now, batch, normOut, chunkOut, pc, arg, res, cals, _cache, pending>>

\* rooms_push_google.main from the scraped batch on
PushRun ==
    /\ pc = "idle"
    /\ runs < MaxRuns
    /\ runs' = runs + 1
    /\ \E raw \in RunBatches :
          LET df == normalize_push(zone, raw)
              own == OwnEvents(ListedEvents(events, now, LOOKAHEAD_DAYS))
          IN  /\ \E out \in RunOutcomes(own, Len(df)) :
                    /\ out.raised => failures < MaxFailures
                    /\ failures' = failures + (IF out.raised THEN 1 ELSE 0)
                    /\ events' = (events \ out.deleted)
                                   \cup PushedEventsPush(zone, df, nextId, out.inserted)
                    /\ nextId' = nextId + out.inserted
                    /\ last' = RunRecord("push", raw, FALSE, df, TRUE, out, nextId)
    /\ UNCHANGED <<zone, now, batch, normOut, chunkOut, pc, arg, res, cals, _cache, pending>>

\* time passes between runs
Tick ==
    /\ pc = "idle"
    /\ \E i \in 1..(Len(ClockPoints) - 1) :
          now = ClockPoints[i] /\ now' = ClockPoints[i + 1]
    /\ last' = NoRun
    /\ UNCHANGED <<zone, events, nextId, runs, failures, batch, normOut, chunkOut, pc,
                   arg, res, cals, _cache, pending>>

Next == SyncRun \/ PushRun \/ Tick

Spec == Init /\ [][Next]_vars

-----------------------------------------------------------------------------
(* Properties of the runs *)

\* the machine-tagged events inside the horizon of a run at instant t
TaggedInHorizon(evs, t, days) ==
    {e \in evs : /\ e.source = SOURCE_TAG
                 /\ e.end > t
                 /\ e.start < t + days * Day}

\* X: the tagged events existing in the horizon before the last sync run
ExistingBefore == TaggedInHorizon(last.pre, last.at, HORIZON_DAYS)

\* T: the target fingerprints of the last sync run
TargetFps == {fingerprint(zone, last.rows[i]) : i \in DOMAIN last.rows}

Fps(evs) == {e.fp : e \in evs}
Ids(evs) == {e.id : e \in evs}

\* the events the last run created, and the rows it sent an insert for
CreatedByLast == {e \in events : e.id >= last.firstId}
InsertRequested == {fingerprint(zone, last.rows[i]) : i \in 1..last.insReq}

SyncDone == last.kind = "sync" /\ last.reached /\ ~last.raised

C4_ForeignEventsKept ==
    [][/\ \A e \in events : e.source # SOURCE_TAG => e \in events'
       /\ last'.kind \in {"sync", "push"} =>
             \A e \in last'.delReq : e.source = SOURCE_TAG]_vars

\* a run has deleted tagged events while a foreign event lay in its horizon
C4_Witness ==
    /\ last.kind \in {"sync", "push"}
    /\ last.delReq # {}
    /\ \E e \in last.pre : /\ e.source # SOURCE_TAG
                           /\ e.end > last.at
                           /\ e.start < last.at + HORIZON_DAYS * Day
                           /\ e \in events

\* C5: every event created by push_events carries the source tag and the
\* fingerprint of the row it was built from (the row as pushed, after
\* chunking): its own start and end, and the row's room and location labels.
C5_CreatedEventsTagged ==
    last.kind = "sync" =>
        \A e \in CreatedByLast :
            LET r == last.rows[e.id - last.firstId + 1]
            IN  /\ e.source = SOURCE_TAG
                /\ e.start = r.Von /\ e.end = r.Bis
                /\ e.fp.head = <<>>
                /\ e.fp.von = IsoFormat(zone, e.start)
                /\ e.fp.bis = IsoFormat(zone, e.end)
                /\ e.fp.tail = r.Raum \o <<"|">> \o r.Standort

\* a chunked run has created the two day slices of one reservation
C5_Witness ==
    /\ SyncDone
    /\ last.chunk
    /\ Len(last.rows) > Len(last.raw)
    /\ Cardinality(CreatedByLast) = Len(last.rows)

\* C6: when a delete or an insert request fails, the run still sends every
\* remaining delete and insert request and does not raise.
C6_FailureIsolated ==
    (last.kind = "sync" /\ last.failed \in {"delete", "insert"}) =>
        /\ ~last.raised
        /\ last.delReq = ExistingBefore
        /\ last.insReq = Len(last.rows)

\* C7: a run whose scrape returned rows but whose target row set is empty
\* sends a delete request for every tagged event in the horizon.
C7_StaleRemovedWhenEmpty ==
    (last.kind = "sync" /\ last.raw # <<>> /\ last.rows = <<>>) =>
        ExistingBefore \subseteq last.delReq

\* the tagged events that lay entirely outside the horizon of the last run:
\* over before the run, or starting at or after its end
TaggedOutsideHorizon ==
    {e \in last.pre : /\ e.source = SOURCE_TAG
                      /\ \/ e.end <= last.at
                         \/ e.start >= last.at + HORIZON_DAYS * Day}

\* C20: horizon bound on deletion. A sync run sends no delete request for a
\* tagged event that lies entirely outside [now, now + horizon_days] at the
\* time of the run, and such an event is still in the calendar after the
\* run; every delete request is for an event that the list request with
\* timeMin = now and timeMax = now + horizon returns.
C20_HorizonBound ==
    last.kind = "sync" =>
        /\ \A e \in TaggedOutsideHorizon : e \notin last.delReq /\ e \in events
        /\ last.delReq \subseteq ListedEvents(last.pre, last.at, HORIZON_DAYS)

\* a sync run has deleted a tagged event inside the horizon while a tagged
\* event starting after the horizon was in the calendar
C20_Witness ==
    /\ last.kind = "sync"
    /\ last.delReq # {}
    /\ \E e \in TaggedOutsideHorizon : e.start >= last.at + HORIZON_DAYS * Day

\* a sync run has deleted a tagged event while a tagged event that was over
\* at the time of the run was in the calendar
SyncRunAfterEventOver ==
    /\ last.kind = "sync"
    /\ last.delReq # {}
    /\ \E e \in TaggedOutsideHorizon : e.end <= last.at

PushDone == last.kind = "push" /\ last.reached /\ ~last.raised

\* whether a run sent its insert requests only after a delete request for
\* every tagged event that the list request of the run returned
DeletesBeforeInserts(days) ==
    /\ last.delReq \subseteq TaggedInHorizon(last.pre, last.at, days)
    /\ last.insReq > 0 => last.delReq = TaggedInHorizon(last.pre, last.at, days)

\* C22 as stated: in a run of rooms_push_google.main every tagged event in
\* [now, now + lookahead_days] is deleted before the first insert request,
\* and after a run that completes the tagged events inside the lookahead
\* window are exactly the events inserted by that run.
C22_PushReplacesWindow ==
    last.kind = "push" =>
        /\ DeletesBeforeInserts(LOOKAHEAD_DAYS)
        /\ PushDone =>
               TaggedInHorizon(events, last.at, LOOKAHEAD_DAYS) = CreatedByLast

\* C22 as amended: the deletes come before the first insert, and after a
\* run that completes the tagged events inside the lookahead window are
\* exactly those of the events inserted by that run that lie inside the
\* window; an inserted event of a row that was over when the run took place
\* lies outside of it.
C22_PushReplacesInsideWindow ==
    last.kind = "push" =>
        /\ DeletesBeforeInserts(LOOKAHEAD_DAYS)
        /\ PushDone =>
               /\ Cardinality(CreatedByLast) = Len(last.rows)
               /\ TaggedInHorizon(events, last.at, LOOKAHEAD_DAYS)
                      = TaggedInHorizon(CreatedByLast, last.at, LOOKAHEAD_DAYS)

\* a completed run of main has deleted a tagged event of an earlier run and
\* has inserted one event inside the lookahead window and one for a row that
\* was over
C22_Witness ==
    /\ PushDone
    /\ last.delReq # {}
    /\ \E e \in CreatedByLast : e.end <= last.at
    /\ \E e \in CreatedByLast : e.end > last.at

\* runs of rooms_sync_google alone against the calendar
SyncNext == SyncRun \/ Tick

SpecSync == Init /\ [][SyncNext]_vars

\* C24: at most one event per reservation identity. After any sequence of
\* completed sync runs no two tagged events of the calendar carry the same
\* fingerprint.
C24_OneEventPerIdentity ==
    failures = 0 =>
        \A e, f \in events :
            (e.source = SOURCE_TAG /\ f.source = SOURCE_TAG /\ e.fp = f.fp) => e = f

-----------------------------------------------------------------------------
(* Split mode: group_and_push_by_calendar with --split-by standort or      *)
(* gebaeude, one calendar per bucket.                                      *)

NameLimit == 80     \* name[:80]

BaseName == <<"R", "o", "o", "m", "s", "_", "B", "F", "H", "_", "K", "i", "l", "c", "h", "e", "n", "m", "a", "n", "n">>
Unbekannt == <<"U", "n", "b", "e", "k", "a", "n", "n", "t">>
Sep == <<" ", "-", " ">>

RECURSIVE BeforeSep(_)
\* s.split(" - ")[0]
BeforeSep(s) ==
    IF Len(s) < Len(Sep) THEN s
    ELSE IF SubSeq(s, 1, Len(Sep)) = Sep THEN <<>>
    ELSE <<Head(s)>> \o BeforeSep(Tail(s))

\* a bucket that is the whole location label in either mode
_bucket_whole_label(standort, mode) ==
    LET s == Strip(standort)
    IN  IF s = <<>> THEN Unbekannt ELSE s

_bucket_from_standort(standort, mode) ==
    LET s == Strip(standort)
    IN  IF s = <<>> THEN Unbekannt
        ELSE IF mode = "gebaeude"
             THEN LET b == Strip(BeforeSep(s)) IN IF b = <<>> THEN Unbekannt ELSE b
        ELSE s

_calendar_name_for_bucket(base_name, bucket) ==
    LET name == base_name \o Sep \o Strip(bucket)
    IN  SubSeq(name, 1, Min2(Len(name), NameLimit))

RECURSIVE SortStrings(_)
\* the keys of groupby("__bucket"), which come in ascending order
SortStrings(S) ==
    IF S = {} THEN <<>>
    ELSE LET m == CHOOSE x \in S : \A y \in S \ {x} : StrLess(x, y)
         IN  <<m>> \o SortStrings(S \ {m})

\* for bucket, part in work.groupby("__bucket"): the buckets with their
\* calendar name and their rows, in the order of the loop
Parts(df, mode) ==
    LET keys == SortStrings({_bucket_from_standort(df[i].Standort, mode) : i \in DOMAIN df})
    IN  [k \in DOMAIN keys |->
            [bucket |-> keys[k],
             cal |-> _calendar_name_for_bucket(BaseName, keys[k]),
             rows |-> SelectSeq(df, LAMBDA r :
                          _bucket_from_standort(r.Standort, mode) = keys[k])]]

\* get_or_create_calendar: the calendar of that name exists afterwards
EnsureCalendar(cs, name) == IF name \in DOMAIN cs THEN cs ELSE cs @@ (name :> {})

\* the calendars after the requests of outcome out for one bucket
ApplyOutcome(z, cs, part, first, out) ==
    [cs EXCEPT ![part.cal] = (@ \ out.deleted)
                               \cup PushedEvents(z, part.rows, first, out.inserted)]

\* what the loop did for one bucket
PartRecord(part, pre, first, out) ==
    [bucket |-> part.bucket, cal |-> part.cal, rows |-> part.rows, pre |-> pre,
     firstId |-> first, delReq |-> out.delReq, insReq |-> out.insReq,
     raised |-> out.raised]

RECURSIVE CompleteParts(_, _, _, _, _, _)
\* the calendars, the next event id and the record of the loop after the
\* first k buckets went through without a failing request
CompleteParts(z, t, cs, parts, k, first) ==
    IF k = 0 THEN [cals |-> cs, next |-> first, log |-> <<>>]
    ELSE LET p == CompleteParts(z, t, cs, parts, k - 1, first)
             part == parts[k]
             cs1 == EnsureCalendar(p.cals, part.cal)
             own == OwnEvents(ListedEvents(cs1[part.cal], t, HORIZON_DAYS))
             out == CHOOSE o \in RunCompletes(own, Len(part.rows)) : TRUE
         IN  [cals |-> ApplyOutcome(z, cs1, part, p.next, out),
              next |-> p.next + out.inserted,
              log |-> Append(p.log, PartRecord(part, cs1[part.cal], p.next, out))]

\* location labels of the split rows: a building with a room wing, the same
\* building with blanks around it, no label, another building
SiteAB == <<"A", " ", "-", " ", "B">>
SiteAPadded == <<" ", "A", " ">>
SiteB == <<"B">>

\* two location labels that differ in their last character only, behind as
\* many characters as a calendar name has room for after the base name
SiteLong(c) == [i \in 1..(NameLimit - Len(BaseName) - Len(Sep)) |-> "A"] \o <<c>>

SplitRows ==
    <<RawRow(Cell(4, 12 * Hour), Cell(4, 13 * Hour), A1, SiteAB),
      RawRow(Cell(4, 14 * Hour), Cell(4, 15 * Hour), B1, SiteAPadded),
      RawRow(Cell(4, 12 * Hour), Cell(4, 13 * Hour), B1, NoSite),
      RawRow(Cell(5, 12 * Hour), Cell(5, 13 * Hour), A1, SiteB)>>

LongRows ==
    <<RawRow(Cell(5, 12 * Hour), Cell(5, 13 * Hour), A1, SiteLong("1")),
      RawRow(Cell(5, 14 * Hour), Cell(5, 15 * Hour), B1, SiteLong("2"))>>

SplitBatches ==
    {Pick(SplitRows, I) : I \in {J \in SUBSET (DOMAIN SplitRows) : Cardinality(J) <= MaxRows}}
        \cup {LongRows}

\* a calendar of an earlier split run: a tagged event of a reservation that
\* is gone, and an event made by hand
OldCalendars ==
    _calendar_name_for_bucket(BaseName, <<"A">>) :>
        {[id |-> -2, start |-> Local(NoDst, 5, 8 * Hour), end |-> Local(NoDst, 5, 9 * Hour),
          source |-> SOURCE_TAG, fp |-> NoFp],
         [id |-> -3, start |-> Local(NoDst, 5, 8 * Hour), end |-> Local(NoDst, 5, 9 * Hour),
          source |-> "", fp |-> NoFp]}

SplitInit ==
    /\ zone = NoDst
    /\ now = ClockPoints[1]
    /\ cals \in {<<>>, OldCalendars}
    /\ _cache = <<>>
    /\ pending = <<>>
    /\ events = {}
    /\ nextId = 1
    /\ last = NoRun
    /\ runs = 0
    /\ failures = 0
    /\ batch = <<>>
    /\ normOut = <<>>
    /\ chunkOut = <<>>
    /\ pc = "idle"
    /\ arg = <<>>
    /\ res = <<>>

SplitRecord(mode, raw, df, reached, log, raised, firstId) ==
    [kind |-> "split", mode |-> mode, raw |-> raw, rows |-> df, reached |-> reached,
     at |-> now, pre |-> cals, firstId |-> firstId, log |-> log, raised |-> raised]

\* rooms_sync_google.run from the scraped batch on, with split_by = standort
\* or gebaeude
SplitRun ==
    /\ pc = "idle"
    /\ runs < MaxRuns
    /\ runs' = runs + 1
    /\ \E raw \in SplitBatches, mode \in {"standort", "gebaeude"}, chunk \in BOOLEAN :
          LET norm == normalize_to_room_times(zone, now, raw)
              df == IF chunk THEN chunk_to_days_6_22(zone, now, norm) ELSE norm
              parts == Parts(df, mode)
          IN  IF raw # <<>> /\ NormalizeRaises(zone, raw)
              THEN /\ last' = SplitRecord(mode, raw, <<>>, FALSE, <<>>, TRUE, nextId)
                   /\ UNCHANGED <<cals, nextId, failures>>
              ELSE IF raw = <<>> \/ norm = <<>> \/ df = <<>>
              THEN /\ last' = SplitRecord(mode, raw, df, FALSE, <<>>, FALSE, nextId)
                   /\ UNCHANGED <<cals, nextId, failures>>
              ELSE \E k \in DOMAIN parts :
                      LET p == CompleteParts(zone, now, cals, parts, k - 1, nextId)
                          part == parts[k]
                          cs1 == EnsureCalendar(p.cals, part.cal)
                          own == OwnEvents(ListedEvents(cs1[part.cal], now, HORIZON_DAYS))
                      IN  \E out \in RunOutcomes(own, Len(part.rows)) :
                             /\ k < Len(parts) => out.raised
                             /\ out.raised => failures < MaxFailures
                             /\ failures' = failures + (IF out.raised THEN 1 ELSE 0)
                             /\ cals' = ApplyOutcome(zone, cs1, part, p.next, out)
                             /\ nextId' = p.next + out.inserted
                             /\ last' = SplitRecord(mode, raw, df, TRUE,
                                            Append(p.log, PartRecord(part, cs1[part.cal],
                                                                     p.next, out)),
                                            out.raised, nextId)
    /\ UNCHANGED <<zone, now, events, batch, normOut, chunkOut, pc, arg, res, _cache, pending>>

SplitNext == SplitRun \/ Tick

SpecSplit == SplitInit /\ [][SplitNext]_vars

\* the location label without the blanks around it, told by position
Stripped(s) ==
    LET I == {i \in DOMAIN s : ~IsSpace(s[i])}
    IN  IF I = {} THEN <<>>
        ELSE SubSeq(s, CHOOSE i \in I : \A j \in I : i <= j,
                       CHOOSE i \in I : \A j \in I : i >= j)

\* the part of s before the first " - ", all of s when there is none
PrefixBeforeSep(s) ==
    LET P == {i \in DOMAIN s : i + 2 <= Len(s) /\ SubSeq(s, i, i + 2) = Sep}
    IN  IF P = {} THEN s ELSE SubSeq(s, 1, (CHOOSE i \in P : \A j \in P : i <= j) - 1)

\* the bucket of a location label as the claim states it
StatedBucket(standort, mode) ==
    LET b == IF mode = "standort" THEN Stripped(standort)
             ELSE Stripped(PrefixBeforeSep(Stripped(standort)))
    IN  IF b = <<>> THEN Unbekannt ELSE b

StatedCalendar(standort, mode) ==
    LET name == BaseName \o Sep \o StatedBucket(standort, mode)
    IN  IF Len(name) <= NameLimit THEN name ELSE SubSeq(name, 1, NameLimit)

\* the positions of the rows of the last run that belong to calendar c
RowsOf(c) == {i \in DOMAIN last.rows : StatedCalendar(last.rows[i].Standort, last.mode) = c}

\* what a split run does for the buckets it gets to: the rows of a bucket
\* are those whose location label gives that bucket, they go to the calendar
\* named from the base name and the bucket and to no other, the tagged events
\* of that calendar are deleted before the first insert, and no bucket comes
\* twice
SplitRouting ==
    /\ \A e \in DOMAIN last.log :
           LET g == last.log[e]
           IN  /\ \A i \in DOMAIN g.rows :
                      /\ StatedBucket(g.rows[i].Standort, last.mode) = g.bucket
                      /\ StatedCalendar(g.rows[i].Standort, last.mode) = g.cal
               /\ g.rows = SelectSeq(last.rows, LAMBDA r :
                               StatedBucket(r.Standort, last.mode) = g.bucket)
               /\ g.delReq \subseteq TaggedInHorizon(g.pre, last.at, HORIZON_DAYS)
               /\ g.insReq <= Len(g.rows)
               /\ g.insReq > 0 => g.delReq = TaggedInHorizon(g.pre, last.at, HORIZON_DAYS)
               /\ \A f \in DOMAIN last.log : f # e => last.log[f].bucket # g.bucket
    /\ \A c \in DOMAIN cals :
           \A ev \in cals[c] :
               ev.id >= last.firstId =>
                   \E i \in RowsOf(c) : ev.fp = fingerprint(zone, last.rows[i])

\* every bucket of the run has been handled and every row has been pushed,
\* once, to its calendar
SplitCoversRows ==
    /\ \A i \in DOMAIN last.rows :
           \E e \in DOMAIN last.log :
               last.log[e].bucket = StatedBucket(last.rows[i].Standort, last.mode)
    /\ \A e \in DOMAIN last.log : last.log[e].insReq = Len(last.log[e].rows)
    /\ \A c \in DOMAIN cals :
           Cardinality({ev \in cals[c] : ev.id >= last.firstId}) = Cardinality(RowsOf(c))

\* a split run in which no request fails routes and covers its rows, when
\* the calendar names of its buckets are short enough to stay whole
SplitRunWhenComplete ==
    (last.kind = "split" /\ last.reached /\ last.raw # LongRows) =>
        /\ SplitRouting
        /\ ~last.raised => SplitCoversRows

\* a run by building has put a row labelled "A - B" and a row without a
\* label into two calendars, and has deleted the stale event of the first
\* calendar on the way
SplitRunTwoBuckets ==
    /\ last.kind = "split" /\ last.reached /\ ~last.raised
    /\ last.mode = "gebaeude"
    /\ Len(last.log) = 2
    /\ \E i \in DOMAIN last.rows : last.rows[i].Standort = SiteAB
    /\ \E e \in DOMAIN last.log : last.log[e].bucket = Unbekannt
    /\ \E e \in DOMAIN last.log : last.log[e].bucket = <<"A">> /\ last.log[e].delReq # {}

\* C19: multi-calendar split. In split mode every target row is pushed to
\* exactly one calendar, the one named from the base name and the row's
\* bucket (the stripped location label, or the stripped prefix before its
\* first " - ", or Unbekannt when that is empty), and the delete-then-push
\* reconciliation is applied once per bucket.
C19_SplitByBucket ==
    (last.kind = "split" /\ last.reached) => (SplitRouting /\ SplitCoversRows)

\* the calendars of earlier runs that got no row in the last run
VanishedCalendars ==
    {c \in DOMAIN last.pre : \A e \in DOMAIN last.log : last.log[e].cal # c}

\* C25: vanished bucket in split mode. When the calendar of a bucket holds
\* tagged events of an earlier run and the run has rows, none of them in that
\* bucket, the run deletes the tagged events of that calendar inside the
\* horizon.
C25_VanishedBucketCleared ==
    (last.kind = "split" /\ last.reached /\ ~last.raised) =>
        \A c \in VanishedCalendars :
            TaggedInHorizon(last.pre[c], last.at, HORIZON_DAYS) \cap cals[c] = {}

\* the events that the last run pushed for the bucket of log entry e
PushedFor(e) ==
    {ev \in UNION {cals[c] : c \in DOMAIN cals} \cup
            UNION {last.log[f].delReq : f \in DOMAIN last.log} :
        /\ ev.id >= last.log[e].firstId
        /\ ev.id < last.log[e].firstId + last.log[e].insReq}

\* C26: bucket isolation. Within one split run no two buckets are reconciled
\* against the same calendar, and the delete step of a bucket removes no
\* event pushed for another bucket earlier in the run, whatever the length
\* of the base name and of the bucket labels.
C26_BucketIsolation ==
    (last.kind = "split" /\ last.reached) =>
        \A e, f \in DOMAIN last.log :
            e < f =>
                /\ last.log[e].cal # last.log[f].cal
                /\ last.log[f].delReq \cap PushedFor(e) = {}

-----------------------------------------------------------------------------
(* Function specification: the pure functions of rooms_sync_google.py      *)
(* applied to arguments drawn from bounded sets.                           *)

MaxLabel == 4       \* length of the generated room labels

LabelChars == {" ", "1", "A", "B"}

RECURSIVE StringsUpTo(_)
\* every string over LabelChars of length at most n
StringsUpTo(n) ==
    IF n = 0 THEN {<<>>}
    ELSE LET shorter == StringsUpTo(n - 1)
         IN  shorter \cup {Append(x, c) : x \in {y \in shorter : Len(y) = n - 1},
                                          c \in LabelChars}

\* room labels as they appear in the reservation table
NamedLabels ==
    {<<"B", " ", "1", "0", "1", " ", "S", "e", "m", "i", "n", "a", "r", "r", "a", "u", "m">>,
     <<"2", "0", "5">>,
     <<"A", " ", " ", "1", " ", "B">>,
     <<"A", "u", "l", "a">>}

Labels == StringsUpTo(MaxLabel) \cup NamedLabels

\* inside["Raum"].apply(extract_room_code), one label at a time
ExtractRoomCode ==
    /\ pc = "label"
    /\ res' = extract_room_code(arg)
    /\ pc' = "code"
    /\ UNCHANGED <<zone, now, events, nextId, last, runs, failures, batch, normOut,
                   chunkOut, arg, cals, _cache, pending>>

\* the whitespace tokens of a label, told by position: a token is a maximal
\* run s[i..j] of characters that are not whitespace
TokenSpans(s) ==
    {sp \in (DOMAIN s) \X (DOMAIN s) :
        /\ sp[1] <= sp[2]
        /\ \A k \in sp[1]..sp[2] : ~IsSpace(s[k])
        /\ sp[1] = 1 \/ IsSpace(s[sp[1] - 1])
        /\ sp[2] = Len(s) \/ IsSpace(s[sp[2] + 1])}
NthToken(s, n) ==
    LET sp == CHOOSE x \in TokenSpans(s) :
                  Cardinality({y \in TokenSpans(s) : y[1] < x[1]}) = n - 1
    IN  SubSeq(s, sp[1], sp[2])
TokenCount(s) == Cardinality(TokenSpans(s))

\* C17: extract_room_code follows the stated rule. An empty label gives the
\* empty code; if the first token contains a digit the code is that token
\* (joined with the second when the first is a short alphabetic prefix and
\* the second contains a digit); otherwise, if the second token contains a
\* digit, the code is the first two tokens joined by one space; otherwise the
\* first token alone.
C17_RoomCodeRule ==
    pc = "code" =>
        LET n == TokenCount(arg)
            t1 == NthToken(arg, 1)
            t2 == NthToken(arg, 2)
            joined == t1 \o <<" ">> \o t2
        IN  /\ n = 0 => res = <<>>
            /\ (n >= 1 /\ HasDigit(t1)) =>
                   res = IF n >= 2 /\ Len(t1) <= 2 /\ AllAlpha(t1) /\ HasDigit(t2)
                         THEN joined ELSE t1
            /\ (n >= 2 /\ ~HasDigit(t1) /\ HasDigit(t2)) => res = joined
            /\ (n >= 1 /\ ~HasDigit(t1) /\ ~(n >= 2 /\ HasDigit(t2))) => res = t1
            /\ arg = <<"B", " ", "1", "0", "1", " ", "S", "e", "m", "i", "n", "a", "r", "r", "a", "u", "m">> => res = <<"B", " ", "1", "0", "1">>
            /\ arg = <<"2", "0", "5">> => res = <<"2", "0", "5">>

\* C17 witness: a label with a doubled blank and a third token, whose code is
\* the letter prefix joined with the number after it by one blank
C17_Witness ==
    /\ pc = "code"
    /\ arg = <<"A", " ", " ", "1", " ", "B">>
    /\ res = <<"A", " ", "1">>

\* canonical rows handed to fingerprint(): instants on both sides of the
\* autumn change (02:30 CEST and 02:30 CET of day 8) and later that day,
\* labels with and without the delimiter, and any room code
FpTimes == {8 * Day + 2 * Hour + 30 * 60, 8 * Day + 3 * Hour + 30 * 60, 8 * Day + 8 * Hour}
FpRooms == {<<"A">>, <<"A", "|">>}
FpSites == {<<>>, <<"B">>, <<"|", "B">>}
FpCodes == {<<>>, <<"A">>}
FpRows ==
    {[Von |-> v, Bis |-> b, Raum |-> rm, Standort |-> st, Raumcode |-> rc] :
        v \in FpTimes, b \in FpTimes, rm \in FpRooms, st \in FpSites, rc \in FpCodes}
FpPairs == {<<r1, r2>> : r1 \in {r \in FpRows : r.Bis > r.Von},
                         r2 \in {r \in FpRows : r.Bis > r.Von}}

\* "fp": fingerprint(r) of push_events, for two rows
Fingerprint ==
    /\ pc = "rows"
    /\ res' = <<fingerprint(zone, arg[1]), fingerprint(zone, arg[2])>>
    /\ pc' = "fps"
    /\ UNCHANGED <<zone, now, events, nextId, last, runs, failures, batch, normOut,
                   chunkOut, arg, cals, _cache, pending>>

SameIdentity(a, b) ==
    a.Von = b.Von /\ a.Bis = b.Bis /\ a.Raum = b.Raum /\ a.Standort = b.Standort

\* C12: fingerprint determinism. Two rows with identical start time, end
\* time, room label and location label have equal fingerprints, whatever
\* their other fields are.
C12_FingerprintDeterminism ==
    pc = "fps" => (SameIdentity(arg[1], arg[2]) => res[1] = res[2])

\* C12 witness: two rows that agree in the four fields and differ in the
\* room code have been fingerprinted
C12_Witness ==
    /\ pc = "fps"
    /\ SameIdentity(arg[1], arg[2])
    /\ arg[1].Raumcode # arg[2].Raumcode
    /\ res[1] = res[2]

\* C13: fingerprint distinctness. Two rows that differ in start time, end
\* time, room label or location label have different serialised texts, for
\* all labels, those containing "|" included.
C13_FingerprintDistinct ==
    pc = "fps" => (~SameIdentity(arg[1], arg[2]) => res[1] # res[2])

\* cells of a raw table: two times of day 8, a room label, a location label
\* and other text
TimeCellA == [txt |-> <<"T", "1">>, t |-> Cell(8, 8 * Hour), dt |-> TRUE, room |-> TRUE, addr |-> FALSE]
TimeCellB == [txt |-> <<"T", "2">>, t |-> Cell(8, 10 * Hour), dt |-> TRUE, room |-> TRUE, addr |-> FALSE]
RoomCell == [txt |-> <<"A", " ", "1">>, t |-> NaT, dt |-> FALSE, room |-> TRUE, addr |-> FALSE]
SiteCell == [txt |-> <<"A", " ", "-", " ", "B">>, t |-> NaT, dt |-> FALSE, room |-> FALSE, addr |-> TRUE]
TextCell == [txt |-> <<"B">>, t |-> NaT, dt |-> FALSE, room |-> FALSE, addr |-> FALSE]
CellKinds == {TimeCellA, TimeCellB, RoomCell, SiteCell, TextCell}

MaxFill == 1        \* rows of other text below the first row of a table

\* headers of three and four columns: the named layout, the same with a
\* column whose name holds an alias, aliases in other spellings, names that
\* say nothing, a column without a name
ShortHeaders ==
    {<<<<"V", "o", "n">>, <<"B", "i", "s">>, <<"R", "a", "u", "m">>>>,
     <<<<"R", "a", "u", "m", "t", "y", "p">>, <<"V", "o", "n">>, <<"B", "i", "s">>, <<"R", "a", "u", "m">>>>,
     <<<<"V", "o", "n">>, <<"B", "i", "s">>, <<"R", "a", "u", "m">>, <<"S", "t", "a", "n", "d", "o", "r", "t">>>>,
     <<<<" ", "B", "E", "G", "I", "N", "N">>, <<"E", "n", "d", "e", " ">>, <<"R", "e", "s", "s", "o", "u", "r", "c", "e">>>>,
     <<<<"x">>, <<"y">>, <<"z">>>>,
     <<<<"x">>, <<"y">>, <<"z">>, <<"w">>>>,
     <<<<"V", "o", "n">>, <<"x">>, <<"y">>>>,
     <<<<"D", "a", "v", "o", "n">>, <<"B", "i", "s", "h", "e", "r">>, <<"R", "a", "u", "m">>>>,
     <<<<"x">>, <<>>, <<"y">>>>}
\* headers of one, two and seven columns (header=None numbers the columns)
OtherHeaders ==
    {<<<<"x">>>>,
     <<<<"x">>, <<"y">>>>,
     <<<<"0">>, <<"1">>, <<"2">>, <<"3">>, <<"4">>, <<"5">>, <<"6">>>>}

RECURSIVE RowsOver(_)
\* every row of n cells
RowsOver(n) ==
    IF n = 0 THEN {<<>>}
    ELSE {Append(r, c) : r \in RowsOver(n - 1), c \in CellKinds}

Fill(n, k) == [i \in 1..k |-> [j \in 1..n |-> TextCell]]

\* seven-column rows: times or text in columns 1 and 2, a label or text in 6
WideRows ==
    {<<TextCell, c1, c2, TextCell, TextCell, TextCell, c6>> :
        c1 \in {TimeCellA, TextCell}, c2 \in {TimeCellB, TextCell},
        c6 \in {RoomCell, TextCell}}

\* the first rows tried under header h
TableRows(h) == IF Len(h) = 7 THEN WideRows ELSE RowsOver(Len(h))

Tables ==
    UNION {{[cols |-> h, rows |-> <<r>> \o Fill(Len(h), k)] :
               r \in TableRows(h), k \in 0..MaxFill} :
           h \in ShortHeaders \cup OtherHeaders}

\* df = normalize_to_room_times(raw) on a raw table
NormalizeRaw ==
    /\ pc = "table"
    /\ res' = NormalizeTable(zone, now, arg)
    /\ pc' = "resolved"
    /\ UNCHANGED <<zone, now, events, nextId, last, runs, failures, batch, normOut,
                   chunkOut, arg, cals, _cache, pending>>

NameVon == <<"V", "o", "n">>
NameBis == <<"B", "i", "s">>
NameRaum == <<"R", "a", "u", "m">>
HasColumn(tab, name) == \E i \in DOMAIN tab.cols : tab.cols[i] = name

\* C14: column-inference priority. With columns named exactly Von, Bis and
\* Raum the three roles resolve to those columns in the alias pass and the
\* content pass is not entered, whatever the cells hold; and a role resolved
\* by an earlier pass is not overridden by a later one.
C14_AliasPriority ==
    pc = "resolved" =>
        /\ (HasColumn(arg, NameVon) /\ HasColumn(arg, NameBis) /\ HasColumn(arg, NameRaum)) =>
               /\ res.roles.alias.von = Lower(NameVon)
               /\ res.roles.alias.bis = Lower(NameBis)
               /\ res.roles.alias.raum = Lower(NameRaum)
               /\ ~res.roles.guessed
               /\ res.roles.final.von = Lower(NameVon)
               /\ res.roles.final.bis = Lower(NameBis)
               /\ res.roles.final.raum = Lower(NameRaum)
        /\ \A role \in {"von", "bis", "raum", "site"} :
               /\ res.roles.alias[role] # None =>
                      res.roles.content[role] = res.roles.alias[role]
               /\ res.roles.content[role] # None =>
                      res.roles.final[role] = res.roles.content[role]

\* the aliases of a role
AliasesOf(role) ==
    CASE role = "von" -> AliasVon
      [] role = "bis" -> AliasBis
      [] role = "raum" -> AliasRaum
      [] role = "site" -> AliasSite

\* C21: alias matching is exact. The alias pass resolves a role only to a
\* column whose cleaned, lower-cased label equals one of the aliases of that
\* role; a label that merely contains an alias (davon, bisher) is not taken.
C21_AliasExact ==
    pc = "resolved" =>
        \A role \in {"von", "bis", "raum", "site"} :
            res.roles.alias[role] # None =>
                \E k \in DOMAIN AliasesOf(role) : AliasesOf(role)[k] = res.roles.alias[role]

\* C28: distinct time columns. Whenever start, end and room are all
\* resolved after the three passes, the column taken for the start time and
\* the column taken for the end time are different columns.
C28_DistinctTimeColumns ==
    pc = "resolved" =>
        LET f == res.roles.final
        IN  (f.von # None /\ f.bis # None /\ f.raum # None) => f.von # f.bis

\* C15: fail-soft on a schema that cannot be resolved. When the start, end
\* or room role is still open after the three passes, the call returns no
\* rows and does not raise.
C15_FailSoft ==
    pc = "resolved" =>
        LET f == res.roles.final
        IN  (f.von = None \/ f.bis = None \/ f.raum = None) =>
                (res.rows = <<>> /\ ~res.raised)

\* C15 witness: a table whose names say nothing and whose cells hold no room
\* label; the content pass found the two time columns, the room role stayed
\* open, and nothing was returned
C15_Witness ==
    /\ pc = "resolved"
    /\ res.roles.guessed
    /\ res.roles.final.von # None /\ res.roles.final.bis # None
    /\ res.roles.final.raum = None
    /\ res.rows = <<>> /\ ~res.raised

-----------------------------------------------------------------------------
(* get_or_create_calendar on the pages of the calendar list *)

MaxCalendars == 3   \* calendars in the calendar list before the first call
MaxCalls == 2       \* calls of get_or_create_calendar in a row

\* calendar names: the base name and another one
CalendarNames == {BaseName, <<"P", "r", "i", "v", "a", "t">>}

\* the calendar list as the service hands it out: one page, or two pages of
\* which either may be empty, of calendars with an id and a summary
CalendarLists ==
    UNION {{IF j > n THEN <<[i \in 1..n |-> [id |-> i, summary |-> f[i]]]>>
            ELSE <<[i \in 1..j |-> [id |-> i, summary |-> f[i]]],
                   [i \in 1..(n - j) |-> [id |-> j + i, summary |-> f[j + i]]]>> :
               f \in [1..n -> CalendarNames], j \in 0..(n + 1)} :
           n \in 0..MaxCalendars}

\* the calendars of all pages, in the order of the list
AllItems(pages) ==
    IF Len(pages) = 1 THEN pages[1] ELSE pages[1] \o pages[2]

\* for item in resp.get("items", []): if item.get("summary") == calendar_name
FirstMatch(page, name) ==
    LET I == {i \in DOMAIN page : page[i].summary = name}
    IN  IF I = {} THEN 0 ELSE page[CHOOSE i \in I : \A j \in I : i <= j].id

\* a fresh calendar id
NewCalendarId(pages) == Len(AllItems(pages)) + 1

\* calendars().insert: the new calendar comes last in the calendar list
WithCalendar(pages, name) ==
    [pages EXCEPT ![Len(pages)] = Append(@, [id |-> NewCalendarId(pages), summary |-> name])]

\* a lookup that reads the first page of the calendar list only
get_or_create_first_page(pages, name, k) ==
    IF FirstMatch(pages[1], name) # 0
    THEN [id |-> FirstMatch(pages[1], name), inserts |-> 0, pages |-> pages]
    ELSE [id |-> NewCalendarId(pages), inserts |-> 1, pages |-> WithCalendar(pages, name)]

RECURSIVE get_or_create_calendar(_, _, _)
\* get_or_create_calendar from page k of the calendar list on: the id it
\* returns, the insert requests it sends, and the calendar list afterwards
get_or_create_calendar(pages, name, k) ==
    IF FirstMatch(pages[k], name) # 0
    THEN [id |-> FirstMatch(pages[k], name), inserts |-> 0, pages |-> pages]
    ELSE IF k < Len(pages) THEN get_or_create_calendar(pages, name, k + 1)
    ELSE [id |-> NewCalendarId(pages), inserts |-> 1, pages |-> WithCalendar(pages, name)]

\* cal_id = get_or_create_calendar(service, calendar_name), called again
\* with the same name
GetOrCreate ==
    /\ pc = "list"
    /\ Len(res) < MaxCalls
    /\ LET out == get_or_create_calendar(arg.pages, arg.name, 1)
       IN  /\ res' = Append(res, [pre |-> arg.pages, id |-> out.id,
                                  inserts |-> out.inserts, post |-> out.pages])
           /\ arg' = [arg EXCEPT !.pages = out.pages]
    /\ UNCHANGED <<zone, now, events, nextId, last, runs, failures, batch, normOut,
                   chunkOut, pc, cals, _cache, pending>>

\* the calendars of the list with that summary
Named(pages, name) ==
    {AllItems(pages)[i] : i \in {j \in DOMAIN AllItems(pages) : AllItems(pages)[j].summary = name}}

RECURSIVE SumInserts(_)
SumInserts(calls) ==
    IF calls = <<>> THEN 0 ELSE Head(calls).inserts + SumInserts(Tail(calls))

\* C23: get_or_create_calendar creates a calendar only on demand. When some
\* page of the calendar list holds a calendar with the summary asked for,
\* the call returns the id of such a calendar, sends no insert and leaves the
\* list alone; otherwise it sends exactly one insert and returns the id of
\* the new calendar. Calls in a row with the same name create at most one
\* calendar.
C23_CreateOnDemand ==
    pc = "list" =>
        /\ \A c \in DOMAIN res :
               LET call == res[c]
               IN  IF Named(call.pre, arg.name) # {}
                   THEN /\ call.inserts = 0
                        /\ call.post = call.pre
                        /\ \E it \in Named(call.pre, arg.name) : it.id = call.id
                   ELSE /\ call.inserts = 1
                        /\ Named(call.post, arg.name) = {[id |-> call.id, summary |-> arg.name]}
                        /\ Len(AllItems(call.post)) = Len(AllItems(call.pre)) + 1
        /\ SumInserts(res) <= 1
        /\ \A c \in DOMAIN res : c > 1 => res[c].id = res[1].id

\* C23 witness: the first call found the name on no page and created the
\* calendar, the second call found it on the second page
C23_Witness ==
    /\ pc = "list"
    /\ Len(res) = 2
    /\ Len(res[1].pre) = 2 /\ res[1].pre[1] # <<>>
    /\ res[1].inserts = 1
    /\ res[2].inserts = 0 /\ res[2].id = res[1].id

-----------------------------------------------------------------------------
(* collect_all_pages: the loop over the pages of the result grid *)

MaxPages == 3       \* max_pages, the most grid extractions of one call

RECURSIVE Join(_)
\* "|".join(map(str, cells))
Join(cells) ==
    IF cells = <<>> THEN <<>>
    ELSE IF Len(cells) = 1 THEN Head(cells)
    ELSE Head(cells) \o <<"|">> \o Join(Tail(cells))

\* first_row = "|".join(map(str, dfp.iloc[0].tolist()))
FirstRowKey(dfp) == Join(dfp[1])

\* what extract_kendo_grid can return: no rows, or a page whose first row is
\* one of four rows, two of which read the same once joined
GridPages ==
    {<<>>,
     <<<<<<"a", "|", "a">>, <<"a">>>>>>,
     <<<<<<"a">>, <<"a", "|", "a">>>>>>,
     <<<<<<"b">>, <<"a">>>>>>,
     <<<<<<"b">>, <<"b">>>>>>}

\* the pages that the grid shows at the successive extractions, and whether
\* kendo_click_next finds an enabled next link after each of them
GridRuns ==
    {[shown |-> sh, clicks |-> cl] :
        sh \in [1..MaxPages -> GridPages], cl \in [1..MaxPages -> BOOLEAN]}

LoopStart == [n |-> 0, all_dfs |-> <<>>, seen |-> {}, done |-> FALSE, why |-> "none"]

\* a loop body that appends the page before it looks at its first row
collect_append_first(st, grid) ==
    IF st.n >= MaxPages THEN [st EXCEPT !.done = TRUE, !.why = "max_pages"]
    ELSE LET dfp == grid.shown[st.n + 1]
             got == [st EXCEPT !.n = @ + 1]
         IN  IF dfp = <<>> THEN [got EXCEPT !.done = TRUE, !.why = "empty"]
             ELSE IF FirstRowKey(dfp) \in st.seen
             THEN [got EXCEPT !.all_dfs = Append(@, dfp), !.done = TRUE, !.why = "seen"]
             ELSE LET kept == [got EXCEPT !.seen = @ \cup {FirstRowKey(dfp)},
                                          !.all_dfs = Append(@, dfp)]
                  IN  IF grid.clicks[st.n + 1] THEN kept
                      ELSE [kept EXCEPT !.done = TRUE, !.why = "click"]

\* one pass of for _ in range(max_pages), or the end of the range
collect_page(st, grid) ==
    IF st.n >= MaxPages THEN [st EXCEPT !.done = TRUE, !.why = "max_pages"]
    ELSE LET dfp == grid.shown[st.n + 1]
             got == [st EXCEPT !.n = @ + 1]
         IN  IF dfp = <<>> THEN [got EXCEPT !.done = TRUE, !.why = "empty"]
             ELSE IF FirstRowKey(dfp) \in st.seen
             THEN [got EXCEPT !.done = TRUE, !.why = "seen"]
             ELSE LET kept == [got EXCEPT !.seen = @ \cup {FirstRowKey(dfp)},
                                          !.all_dfs = Append(@, dfp)]
                  IN  IF grid.clicks[st.n + 1] THEN kept
                      ELSE [kept EXCEPT !.done = TRUE, !.why = "click"]

\* collect_all_pages, pass by pass
CollectPage ==
    /\ pc = "paging"
    /\ ~res.done
    /\ res' = collect_page(res, arg)
    /\ UNCHANGED <<zone, now, events, nextId, last, runs, failures, batch, normOut,
                   chunkOut, pc, arg, cals, _cache, pending>>

\* whether the k-th extraction gives a reason to stop as the claim lists
\* them: an empty page, a first row equal to the first row of a page shown
\* before, or a next link that cannot be clicked
StopsAt(grid, k) ==
    \/ grid.shown[k] = <<>>
    \/ \E j \in 1..(k - 1) : grid.shown[j] # <<>> /\ grid.shown[j][1] = grid.shown[k][1]
    \/ ~grid.clicks[k]

\* C30: pagination terminates and never repeats a page. collect_all_pages
\* makes at most max_pages grid extractions, makes none after the first
\* empty page, the first page whose first row equals that of a page
\* collected before, or the first failed next-click, and appends no page
\* whose first row was seen before.
C30_PaginationStops ==
    pc = "paging" =>
        /\ res.n <= MaxPages
        /\ \A k \in 1..(res.n - 1) : ~StopsAt(arg, k)
        /\ (res.n >= 1 /\ StopsAt(arg, res.n)) => res.done
        /\ Len(res.all_dfs) <= res.n
        /\ \A i \in DOMAIN res.all_dfs : res.all_dfs[i] = arg.shown[i]
        /\ \A i, j \in DOMAIN res.all_dfs :
               i < j => res.all_dfs[i][1] # res.all_dfs[j][1]
        /\ (res.done /\ res.why # "max_pages") =>
               \/ StopsAt(arg, res.n)
               \/ FirstRowKey(arg.shown[res.n]) \in
                      {FirstRowKey(arg.shown[j]) : j \in 1..(res.n - 1)}

\* C30 witness: after two pages the grid showed the first page again, and
\* the loop stopped at the third extraction with two pages collected
C30_Witness ==
    /\ pc = "paging"
    /\ res.done /\ res.why = "seen"
    /\ res.n = 3 /\ Len(res.all_dfs) = 2
    /\ arg.shown[3] = arg.shown[1]

-----------------------------------------------------------------------------

FunInit ==
    /\ \/ pc = "label" /\ arg \in Labels /\ zone = NoDst /\ res = <<>>
       \/ pc = "rows" /\ arg \in FpPairs /\ zone \in PipeZones /\ res = <<>>
       \/ pc = "table" /\ arg \in Tables /\ zone = NoDst /\ res = <<>>
       \/ /\ pc = "list"
          /\ arg \in {[pages |-> l, name |-> BaseName] : l \in CalendarLists}
          /\ zone = NoDst
          /\ res = <<>>
       \/ pc = "paging" /\ arg \in GridRuns /\ zone = NoDst /\ res = LoopStart
    /\ now = 7 * Day + 10 * Hour
    /\ events = {}
    /\ nextId = 1
    /\ last = NoRun
    /\ runs = 0
    /\ failures = 0
    /\ batch = <<>>
    /\ normOut = <<>>
    /\ chunkOut = <<>>
    /\ cals = <<>>
    /\ _cache = <<>>
    /\ pending = <<>>

FunNext == ExtractRoomCode \/ Fingerprint \/ NormalizeRaw \/ GetOrCreate \/ CollectPage

SpecFun == FunInit /\ [][FunNext]_vars

-----------------------------------------------------------------------------
(* ICS service: scripts/Ics_service.py, the route /ics/<group>.ics and its *)
(* cache.                                                                  *)

CACHE_TTL == 300

MaxClock == 460     \* the service clock, in seconds, stops here
MaxPending == 2     \* requests that wait for the bookings at one time

\* seconds between two steps of the service
ClockSteps == {150, 151}

\* GROUP_MAP: the groups that have room ids
GroupKeys == {<<"a">>, <<"b">>}
\* the <group> of a request: known groups in either case, and another one
GroupParams == {<<"A">>, <<"a">>, <<"b">>, <<"x">>}

\* cache_key = f"ics::{group_key}"
CacheKey(group_key) == <<"i", "c", "s", ":", ":">> \o group_key

\* a lookup that takes an entry of any age
cache_get_any_age(cache, key, t) ==
    IF key \notin DOMAIN cache THEN None ELSE cache[key].data

\* cache_get(key) at time t
cache_get(cache, key, t) ==
    IF key \notin DOMAIN cache THEN None
    ELSE IF t - cache[key].ts > CACHE_TTL THEN None
    ELSE cache[key].data

\* cache_set(key, data) at time t
cache_set(cache, key, data, t) ==
    [k \in DOMAIN cache \cup {key} |->
        IF k = key THEN [ts |-> t, data |-> data] ELSE cache[k]]

\* bookings_to_ics(bookings): the text for the rooms of a group, with the
\* time of its generation (DTSTAMP)
IcsText(group_key, t) == [group |-> group_key, stamp |-> t]

\* what a request was answered with; since and seen are the time of its
\* cache lookup and the cache it looked at
Response(status, key, from, data, fetched, since, seen) ==
    [kind |-> "ics", status |-> status, key |-> key, from |-> from, data |-> data,
     fetched |-> fetched, at |-> now, pre |-> _cache, since |-> since, seen |-> seen]

RECURSIVE Without(_, _)
\* the sequence s without its i-th entry
Without(s, i) ==
    IF i = 1 THEN Tail(s) ELSE <<Head(s)>> \o Without(Tail(s), i - 1)

\* ics_group up to the call of fetch_bookings: 404 for a group without room
\* ids, the cached text when cache_get returns one, else on to the bookings
IcsRequest ==
    /\ pc = "serving"
    /\ \E group \in GroupParams :
          LET group_key == Lower(group)
              cached == cache_get(_cache, CacheKey(group_key), now)
          IN  IF group_key \notin GroupKeys
              THEN /\ last' = Response(404, CacheKey(group_key), "none", None, FALSE, now, _cache)
                   /\ UNCHANGED pending
              ELSE IF cached # None
              THEN /\ last' = Response(200, CacheKey(group_key), "cache", cached, FALSE, now, _cache)
                   /\ UNCHANGED pending
              ELSE /\ Len(pending) < MaxPending
                   /\ pending' = Append(pending, [group |-> group_key, since |-> now,
                                                seen |-> _cache])
                   /\ last' = NoRun
    /\ UNCHANGED <<zone, now, events, nextId, runs, failures, batch, normOut, chunkOut,
                   pc, arg, res, cals, _cache>>

\* ics_group from fetch_bookings on: the bookings arrive and the text made
\* of them is stored and sent, or fetch_bookings raises
IcsRespond ==
    /\ pc = "serving"
    /\ \E i \in DOMAIN pending, ok \in BOOLEAN :
          LET key == CacheKey(pending[i].group)
              ics_text == IcsText(pending[i].group, now)
          IN  /\ pending' = Without(pending, i)
              /\ IF ok
                 THEN /\ _cache' = cache_set(_cache, key, ics_text, now)
                      /\ last' = Response(200, key, "fresh", ics_text, TRUE,
                                        pending[i].since, pending[i].seen)
                 ELSE /\ UNCHANGED _cache
                      /\ last' = Response(500, key, "none", None, TRUE,
                                        pending[i].since, pending[i].seen)
    /\ UNCHANGED <<zone, now, events, nextId, runs, failures, batch, normOut, chunkOut,
                   pc, arg, res, cals>>

\* time.time() moves on
IcsTick ==
    /\ pc = "serving"
    /\ \E d \in ClockSteps : now + d <= MaxClock /\ now' = now + d
    /\ last' = NoRun
    /\ UNCHANGED <<zone, events, nextId, runs, failures, batch, normOut, chunkOut,
                   pc, arg, res, cals, _cache, pending>>

IcsInit ==
    /\ pc = "serving"
    /\ now = 0
    /\ _cache = <<>>
    /\ pending = <<>>
    /\ zone = NoDst
    /\ events = {}
    /\ nextId = 1
    /\ last = NoRun
    /\ runs = 0
    /\ failures = 0
    /\ batch = <<>>
    /\ normOut = <<>>
    /\ chunkOut = <<>>
    /\ arg = <<>>
    /\ res = <<>>
    /\ cals = <<>>

IcsNext == IcsRequest \/ IcsRespond \/ IcsTick

SpecIcs == IcsInit /\ [][IcsNext]_vars

\* C29: ICS cache freshness. A response comes from the cache only when the
\* entry of its key was stored at most CACHE_TTL seconds earlier, and then
\* fetch_bookings is not called and the cache stays as it is; a request that
\* found no entry, or an entry older than that, is answered with a text
\* generated for it, which replaces the entry of its key and of no other key.
C29_CacheFreshness ==
    last.kind = "ics" =>
        /\ last.from = "cache" =>
               /\ last.key \in DOMAIN last.pre
               /\ last.at - last.pre[last.key].ts <= CACHE_TTL
               /\ last.data = last.pre[last.key].data
               /\ ~last.fetched
               /\ _cache = last.pre
        /\ last.from = "fresh" =>
               /\ last.fetched
               /\ last.data.stamp = last.at
               /\ DOMAIN _cache = DOMAIN last.pre \cup {last.key}
               /\ _cache[last.key] = [ts |-> last.at, data |-> last.data]
               /\ \A k \in DOMAIN last.pre : k # last.key => _cache[k] = last.pre[k]
        /\ last.status = 200 => last.from \in {"cache", "fresh"}
        /\ last.fetched =>
               \* the request had found nothing fresh enough when it looked
               \/ last.key \notin DOMAIN last.seen
               \/ last.since - last.seen[last.key].ts > CACHE_TTL

\* C29 witness: the entry of group a had expired, the request for it was
\* answered with a new text that took its place, and the entry of group b
\* was left as it was
C29_Witness ==
    /\ last.kind = "ics" /\ last.from = "fresh"
    /\ last.key = CacheKey(<<"a">>)
    /\ last.key \in DOMAIN last.pre
    /\ last.at - last.pre[last.key].ts > CACHE_TTL
    /\ CacheKey(<<"b">>) \in DOMAIN _cache

====
